---- MODULE Spec2Model ----
(***************************************************************************)
(* Macro placement legalization: the sequential legalizer                  *)
(* (dumb_legalize.py), the force relaxation (force_legalize.py) and the    *)
(* driver MacroPlacementOptimizer with the loop of main                    *)
(* (visualize_macros.py).                                                  *)
(*                                                                         *)
(* A placement model is the record [die_area, macros]; macros is the       *)
(* sequence of macro records in dict insertion order, so a macro's name is *)
(* its index.  Python objects live in `heap`; a reference is an index into *)
(* it, which keeps object identity (in-place mutation against deep copy)   *)
(* observable.                                                             *)
(***************************************************************************)
EXTENDS Integers, Sequences, FiniteSets, TLC

VARIABLES
  heap,           \* sequence of placement models: the dict objects allocated so far
  parsed_data,    \* main: the dict loaded from the JSON file (a value)
  cfg,            \* the run's parameters: macro_width, macro_height, macro_halo
  original_data,  \* MacroPlacementOptimizer.original_data (reference)
  current_data,   \* MacroPlacementOptimizer.current_data (reference)
  iterations,     \* MacroPlacementOptimizer.iterations (sequence of references)
  loop_i,         \* main: the loop variable i of `for i in range(len(macros))`
  pc,             \* main: "loop" while the for loop runs, "done" after it
  calls,          \* number of modify_placement calls made so far
  committed,      \* history: the models committed so far, oldest first
  last,           \* history: the last call of a modification function
  probe           \* the overlap computation of lines 33-40 on one pair of positions

vars == <<heap, parsed_data, cfg, original_data, current_data, iterations,
          loop_i, pc, calls, committed, last, probe>>

(***************************************************************************)
(* Bounds of the model.                                                    *)
(***************************************************************************)
MaxMacros == 2      \* at most this many macros in the parsed placement
MaxCoord == 1       \* parsed coordinates are grid steps 0..MaxCoord per axis
MaxCalls == 2       \* at most this many modify_placement calls per run
MaxProbe == 2       \* probed positions are grid steps -MaxProbe..MaxProbe per axis

(***************************************************************************)
(* Arithmetic helpers.                                                     *)
(***************************************************************************)
Abs(x) == IF x < 0 THEN -x ELSE x

Min2(a, b) == IF b < a THEN b ELSE a

Max2(a, b) == IF b > a THEN b ELSE a

(***************************************************************************)
(* dumb_legalize.py                                                        *)
(***************************************************************************)

\* The sort key of line 17, (x**2 + y**2)**0.5.  The float square root is
\* strictly increasing on the integers x*x + y*y met here (below 2^53), so the
\* key orders as x*x + y*y does.  The sum is kept as three base-10000 digits,
\* most significant first, so that it never exceeds 32-bit integers.
DistKey(c) ==
  LET ax == Abs(c[1])
      ay == Abs(c[2])
      a == ax \div 10000
      b == ax % 10000
      p == ay \div 10000
      q == ay % 10000
      t0 == b * b + q * q
      t1 == 2 * (a * b + p * q) + (t0 \div 10000)
      t2 == a * a + p * p + (t1 \div 10000)
  IN <<t2, t1 % 10000, t0 % 10000>>

KeyLess(k1, k2) ==
  \/ k1[1] < k2[1]
  \/ k1[1] = k2[1] /\ k1[2] < k2[2]
  \/ k1[1] = k2[1] /\ k1[2] = k2[2] /\ k1[3] < k2[3]

\* Line 17, macros.sort(key=...), as a stable insertion sort of the first k
\* macros: each macro goes behind the entries whose key is not greater than
\* its own, so macros of equal key keep their insertion order.  The entries
\* are <<key, name>>.
RECURSIVE SortByKey(_, _)
SortByKey(macros, k) ==
  IF k = 0 THEN << >>
  ELSE LET sorted == SortByKey(macros, k - 1)
           key == DistKey(macros[k].coordinates)
           pos == Cardinality({j \in 1..Len(sorted) : ~KeyLess(key, sorted[j][1])})
       IN SubSeq(sorted, 1, pos) \o << <<key, k>> >> \o SubSeq(sorted, pos + 1, Len(sorted))

\* A faulty variant of SortedMacros that keeps the order of the placement as
\* it was loaded.
SortedAtLoad(data) ==
  LET sorted == SortByKey(parsed_data.macros, Len(parsed_data.macros))
  IN [r \in 1..Len(sorted) |-> sorted[r][2]]

\* Lines 14-17: the list of macros sorted by distance from (0, 0), as the
\* sequence of macro names (indices), nearest first.
SortedMacros(data) ==
  LET sorted == SortByKey(data.macros, Len(data.macros))
  IN [r \in 1..Len(sorted) |-> sorted[r][2]]

\* Python indexing macros[iteration] of a list of n elements: an index in
\* -n .. n-1 is accepted, and a negative one counts from the end.
PyIndexOk(n, k) == -n <= k /\ k < n

PyIndex(n, k) == IF k < 0 THEN k + n ELSE k

\* Python slicing macros[start:]: the 0-based position the slice starts at.
PySliceStart(n, start) ==
  IF start < 0 THEN Max2(start + n, 0) ELSE Min2(start, n)

\* A faulty variant of SliceAfterCurrent that starts at the current macro.
SliceFromCurrent(macros, iteration) ==
  SubSeq(macros, PySliceStart(Len(macros), iteration) + 1, Len(macros))

\* Line 31: macros[iteration + 1:], the macros compared against the current one.
SliceAfterCurrent(macros, iteration) ==
  SubSeq(macros, PySliceStart(Len(macros), iteration + 1) + 1, Len(macros))

\* A faulty variant of XOverlap that measures from the right edge of the
\* current macro only.
XOverlapFromCurrent(c1, c2, macro_width, macro_halo) ==
  (c1[1] - macro_halo) + macro_width + 2 * macro_halo
    - Max2(c1[1] - macro_halo, c2[1] - macro_halo)

\* Lines 33-40: the overlap of the halo-expanded boxes of two macros.
XOverlap(c1, c2, macro_width, macro_halo) ==
  LET x1 == c1[1] - macro_halo
      x2 == c2[1] - macro_halo
  IN Min2(x1 + macro_width + 2 * macro_halo, x2 + macro_width + 2 * macro_halo)
       - Max2(x1, x2)

YOverlap(c1, c2, macro_height, macro_halo) ==
  LET y1 == c1[2] - macro_halo
      y2 == c2[2] - macro_halo
  IN Min2(y1 + macro_height + 2 * macro_halo, y2 + macro_height + 2 * macro_halo)
       - Max2(y1, y2)

\* A faulty variant of IsOverlap that takes an overlap on one axis for one.
IsOverlapEither(x_overlap, y_overlap) == x_overlap > 0 \/ y_overlap > 0

\* Line 43.
IsOverlap(x_overlap, y_overlap) == x_overlap > 0 /\ y_overlap > 0

\* A faulty variant of MoveRight that moves right on a tie.
MoveRightOnTie(x_overlap, y_overlap) == x_overlap <= y_overlap

\* Line 54: move right when the x overlap is the smaller one, else move "down".
MoveRight(x_overlap, y_overlap) == x_overlap < y_overlap

\* A faulty variant of MovedCoordinates that moves left or up.
MovedLeftOrUp(c, x_overlap, y_overlap) ==
  IF MoveRight(x_overlap, y_overlap)
  THEN <<c[1] - x_overlap, c[2]>>
  ELSE <<c[1], c[2] - y_overlap>>

\* A faulty variant of MovedCoordinates that moves along both axes.
MovedBoth(c, x_overlap, y_overlap) == <<c[1] + x_overlap, c[2] + y_overlap>>

\* Lines 52-61: the moves, in list order.  `macro['coordinates'][0] += d`
\* updates the coordinate list the model holds; on a tuple the item assignment
\* raises TypeError and the moves made before it stay.
MovedCoordinates(c, x_overlap, y_overlap) ==
  IF MoveRight(x_overlap, y_overlap)
  THEN <<c[1] + x_overlap, c[2]>>
  ELSE <<c[1], c[2] + y_overlap>>

RECURSIVE MoveOverlapping(_, _)
MoveOverlapping(data, overlapping_macros) ==
  IF overlapping_macros = << >>
  THEN [outcome |-> "return", data |-> data]
  ELSE IF data.macros[Head(overlapping_macros)[1]].is_tuple
  THEN [outcome |-> "TypeError", data |-> data]
  ELSE MoveOverlapping(
         [data EXCEPT !.macros[Head(overlapping_macros)[1]].coordinates =
            MovedCoordinates(@, Head(overlapping_macros)[2], Head(overlapping_macros)[3])],
         Tail(overlapping_macros))

\* Lines 31-45: the list overlapping_macros of (macro, x_overlap, y_overlap),
\* over the macros of the slice `rest`, against the coordinates cc of
\* current_macro.
OverlapEntry(data, cc, macro, macro_width, macro_height, macro_halo) ==
  <<macro,
    XOverlap(cc, data.macros[macro].coordinates, macro_width, macro_halo),
    YOverlap(cc, data.macros[macro].coordinates, macro_height, macro_halo)>>

OverlappingMacros(data, cc, rest, macro_width, macro_height, macro_halo) ==
  SelectSeq([j \in 1..Len(rest) |->
               OverlapEntry(data, cc, rest[j], macro_width, macro_height, macro_halo)],
            LAMBDA entry : IsOverlap(entry[2], entry[3]))

\* Lines 27-68, with current_macro chosen: the highlight, then the moves.
LegalizeCurrent(data, current_macro, rest, macro_width, macro_height, macro_halo) ==
  MoveOverlapping([data EXCEPT !.macros[current_macro].highlighted = TRUE],
                  OverlappingMacros(data, data.macros[current_macro].coordinates, rest,
                                    macro_width, macro_height, macro_halo))

\* Lines 23-68, with the sorted list `macros` built: macros[iteration] raises
\* IndexError before anything is written.
LegalizeSorted(data, macros, macro_width, macro_height, macro_halo, iteration) ==
  IF ~PyIndexOk(Len(macros), iteration)
  THEN [outcome |-> "IndexError", data |-> data]
  ELSE LegalizeCurrent(data, macros[PyIndex(Len(macros), iteration) + 1],
                       SliceAfterCurrent(macros, iteration),
                       macro_width, macro_height, macro_halo)

\* legalize_placement: the outcome ("return" or the exception raised) and the
\* value of the dict `data` after the call (the dict is updated in place and,
\* on return, is the object returned).
LegalizePlacement(data, macro_width, macro_height, macro_halo, iteration) ==
  LegalizeSorted(data, SortedMacros(data), macro_width, macro_height, macro_halo,
                 iteration)

(***************************************************************************)
(* force_legalize.py                                                       *)
(*                                                                         *)
(* The floats of the source are modelled in fixed point: forces and        *)
(* positions in hundredths of a length unit, unit vectors in steps of      *)
(* 1/10000, overlap_force and spring_force in hundredths (20 is 0.2).      *)
(***************************************************************************)

\* Lines 37-38: the macro extent the relaxation hard-codes.
force_macro_width == 155420

force_macro_height == 81200

\* The largest r with r * r <= n, for 0 <= n < 2^31, by bisection.
RECURSIVE ISqrtIn(_, _, _)
ISqrtIn(n, lo, hi) ==
  IF lo >= hi THEN lo
  ELSE LET mid == (lo + hi + 1) \div 2
       IN IF mid * mid <= n THEN ISqrtIn(n, mid, hi) ELSE ISqrtIn(n, lo, mid - 1)

ISqrt(n) == ISqrtIn(n, 0, 46340)

\* v with the sign of s.
Signed(s, v) == IF s < 0 THEN -v ELSE v

\* A component v >= 0 of a vector whose larger component is m > 0, rescaled
\* so that the larger component lies in 15000..30000, which keeps four digits
\* of the quotient below.
Rescaled(v, m) ==
  IF m <= 30000 THEN v * (30000 \div m) ELSE v \div ((m \div 30000) + 1)

\* Line 69 for the rescaled components X, Y >= 0 and their norm.
Normalized(X, Y, norm, dx, dy) ==
  <<Signed(dx, (X * 10000) \div norm), Signed(dy, (Y * 10000) \div norm)>>

NormalizedFrom(X, Y, dx, dy) == Normalized(X, Y, ISqrt(X * X + Y * Y), dx, dy)

\* A faulty variant of UnitVector whose fallback direction is (0, 1).
UnitVectorFallbackUp(dx, dy) ==
  IF dx = 0 /\ dy = 0 THEN <<0, 10000>>
  ELSE NormalizedFrom(Rescaled(Abs(dx), Max2(Abs(dx), Abs(dy))),
                      Rescaled(Abs(dy), Max2(Abs(dx), Abs(dy))), dx, dy)

\* Lines 62-69: direction / np.linalg.norm(direction), with the fallback
\* (1, 0) when the centres coincide (for integer coordinates the norm is
\* below 1e-6 exactly when both differences are 0).
UnitVector(dx, dy) ==
  IF dx = 0 /\ dy = 0 THEN <<10000, 0>>
  ELSE NormalizedFrom(Rescaled(Abs(dx), Max2(Abs(dx), Abs(dy))),
                      Rescaled(Abs(dy), Max2(Abs(dx), Abs(dy))), dx, dy)

\* u * mag / 10000 for a unit-vector component u and a magnitude mag >= 0 in
\* hundredths, rounded toward 0, without leaving 32 bits.
Scaled(u, mag) ==
  Signed(u, Abs(u) * (mag \div 10000) + (Abs(u) * (mag % 10000)) \div 10000)

\* Lines 77-81: direction * force_magnitude.
ScaledVector(direction, force_magnitude) ==
  <<Scaled(direction[1], force_magnitude), Scaled(direction[2], force_magnitude)>>

\* Lines 53-81 for the differences dx, dy of a pair's coordinates.
PairForceOf(dx, dy, overlap_force, halo_size) ==
  IF /\ Abs(dx) < force_macro_width + halo_size * 2
     /\ Abs(dy) < force_macro_height + halo_size * 2
  THEN ScaledVector(UnitVector(dx, dy),
                    overlap_force * Min2(force_macro_width - Abs(dx) + halo_size * 2,
                                         force_macro_height - Abs(dy) + halo_size * 2))
  ELSE <<0, 0>>

\* Lines 46-81 for one pair i < j: direction * force_magnitude, the force
\* added to macro j and subtracted from macro i; <<0, 0>> when the
\* halo-expanded boxes do not overlap.
PairForce(ci, cj, overlap_force, halo_size) ==
  PairForceOf(cj[1] - ci[1], cj[2] - ci[2], overlap_force, halo_size)

VectorSum(u, v) == <<u[1] + v[1], u[2] + v[2]>>

VectorNeg(u) == <<-u[1], -u[2]>>

\* Lines 80-81: what the pair of a and k adds to forces[a].
PairTerm(macros, a, k, overlap_force, halo_size) ==
  IF k = a THEN <<0, 0>>
  ELSE IF a < k
  THEN VectorNeg(PairForce(macros[a].coordinates, macros[k].coordinates,
                           overlap_force, halo_size))
  ELSE PairForce(macros[k].coordinates, macros[a].coordinates, overlap_force, halo_size)

\* Lines 44-81: the repulsion accumulated on macro a from the pairs it is in,
\* taken over the other macros b = 1..k.
RECURSIVE Repulsion(_, _, _, _, _)
Repulsion(macros, a, k, overlap_force, halo_size) ==
  IF k = 0 THEN <<0, 0>>
  ELSE VectorSum(Repulsion(macros, a, k - 1, overlap_force, halo_size),
                 PairTerm(macros, a, k, overlap_force, halo_size))

\* Lines 84-99: direction / distance * (spring_force * distance), which is
\* spring_force * (original_pos - current_pos); zero when the distance is 0.
SpringForce(current_pos, original_pos, spring_force) ==
  <<spring_force * (original_pos[1] - current_pos[1]),
    spring_force * (original_pos[2] - current_pos[2])>>

\* A faulty variant of Clamp that forgets the lower bound.
ClampUpperOnly(lo, hi, v) == Min2(hi, v)

\* Lines 109-110: max(lower, min(upper - extent, new_pos)); hi is upper - extent.
Clamp(lo, hi, v) == Max2(lo, Min2(hi, v))

\* Line 113: int() of a float, given in hundredths: truncation toward 0.
IntOf(v) == IF v >= 0 THEN v \div 100 ELSE -((-v) \div 100)

\* Lines 106-110: new_pos = current_pos + force, constrained to the die
\* area; all in hundredths.
NewPos(die_area, current_pos, force) ==
  <<Clamp(die_area.lower_left[1] * 100,
          (die_area.upper_right[1] - force_macro_width) * 100,
          current_pos[1] * 100 + force[1]),
    Clamp(die_area.lower_left[2] * 100,
          (die_area.upper_right[2] - force_macro_height) * 100,
          current_pos[2] * 100 + force[2])>>

\* Line 113: the tuple (int(new_pos[0]), int(new_pos[1])).
IntCoordinates(new_pos) == <<IntOf(new_pos[1]), IntOf(new_pos[2])>>

\* Lines 41-113 for macro a: its new coordinates.
NewCoordinates(data, original, a, overlap_force, spring_force, halo_size) ==
  IntCoordinates(
    NewPos(data.die_area, data.macros[a].coordinates,
           VectorSum(Repulsion(data.macros, a, Len(data.macros), overlap_force, halo_size),
                     SpringForce(data.macros[a].coordinates,
                                 original.macros[a].coordinates, spring_force))))

\* force_based_placement: the new dict it returns (modified_data, a deep copy
\* of data with the coordinates replaced by tuples).  `original` is << >> for
\* original_data=None and <<model>> otherwise; the dict `data` is only read.
ForceBasedPlacement(data, original, overlap_force, spring_force, halo_size) ==
  [data EXCEPT !.macros =
     [a \in 1..Len(data.macros) |->
        [data.macros[a] EXCEPT
           !.coordinates = NewCoordinates(data, IF original = << >> THEN data ELSE original[1],
                                          a, overlap_force, spring_force, halo_size),
           !.is_tuple = TRUE]]]

(***************************************************************************)
(* visualize_macros.py: MacroPlacementOptimizer and main                   *)
(***************************************************************************)

\* Line 10.
MACRO_HALO_SIZE == 10000

\* main, lines 472-473.
main_macro_width == 155420

main_macro_height == 81200

DieArea(llx, lly, urx, ury) ==
  [lower_left |-> <<llx, lly>>, upper_right |-> <<urx, ury>>]

\* The runs explored: the extent and halo handed to legalize_placement, the
\* keyword arguments handed to force_based_placement, the die area of the
\* parsed file, and the spacing of the parsed coordinates.  overlap_force and
\* spring_force are in hundredths; original tells whether original_data is
\* passed or left at None.  The third run has a zero width and a die area
\* whose upper right corner is not to the right of its lower left one; the
\* fourth one is the run of main (the relaxation as called in lines 481-493);
\* the last one is a run with the defaults of force_based_placement, but for
\* spring_force, in a die area that leaves room on all sides.
Configs ==
  { [macro_width |-> 2, macro_height |-> 3, macro_halo |-> 0,
     overlap_force |-> 20, spring_force |-> 0, halo_size |-> 0, original |-> FALSE,
     die_area |-> DieArea(0, 0, force_macro_width + 10000, force_macro_height + 10000),
     grid_x |-> 1, grid_y |-> 1],
    [macro_width |-> 2, macro_height |-> 2, macro_halo |-> 1,
     overlap_force |-> 20, spring_force |-> 5, halo_size |-> 0, original |-> TRUE,
     die_area |-> DieArea(0, 0, 4, 4),
     grid_x |-> 1, grid_y |-> 1],
    [macro_width |-> 0, macro_height |-> 2, macro_halo |-> 0,
     overlap_force |-> 20, spring_force |-> 0, halo_size |-> 0, original |-> FALSE,
     die_area |-> DieArea(3, 3, 3, 5),
     grid_x |-> 1, grid_y |-> 1],
    [macro_width |-> main_macro_width, macro_height |-> main_macro_height,
     macro_halo |-> MACRO_HALO_SIZE,
     overlap_force |-> 80, spring_force |-> 5, halo_size |-> MACRO_HALO_SIZE,
     original |-> TRUE,
     die_area |-> DieArea(0, 0, 400000, 200000),
     grid_x |-> 200000, grid_y |-> 20000],
    [macro_width |-> main_macro_width, macro_height |-> main_macro_height,
     macro_halo |-> 0,
     overlap_force |-> 20, spring_force |-> 0, halo_size |-> 0, original |-> FALSE,
     die_area |-> DieArea(0, 0, 400000, 200000),
     grid_x |-> 20000, grid_y |-> 20000] }

\* A macro record as json.load builds it: coordinates a list, no
\* 'highlighted' key (FALSE).  The fields type, status and orientation are
\* carried along unread and are left out.  The parsed macros sit at most
\* MaxCoord grid steps from (0, 0), both axes taken together.
Macro(x, y) == [coordinates |-> <<x, y>>, highlighted |-> FALSE, is_tuple |-> FALSE]

ParsedModels(c) ==
  LET steps == {g \in (0..MaxCoord) \X (0..MaxCoord) : g[1] + g[2] <= MaxCoord}
      places == {Macro(c.grid_x * g[1], c.grid_y * g[2]) : g \in steps}
  IN {[die_area |-> c.die_area, macros |-> ms] :
        ms \in UNION {[1..n -> places] : n \in 0..MaxMacros}}

\* The record kept of a call of a modification function: the function, its
\* iteration argument, how it ended, whether it returned the very object it
\* was given, the model it was given before and after the call, the model it
\* returned, and what iterations held when modify_placement was entered.
NoCall ==
  [func |-> "none", iteration |-> 0, outcome |-> "none", identity |-> FALSE,
   before |-> parsed_data, after |-> parsed_data, result |-> parsed_data,
   iterations_before |-> << >>]

\* No overlap computation probed.
NoProbe == [a |-> <<0, 0>>, b |-> <<0, 0>>, done |-> FALSE]

\* MacroPlacementOptimizer.__init__, lines 22-29: three deep copies of the
\* parsed data; the third is the first entry of iterations.
InitOptimizer ==
  /\ cfg \in Configs
  /\ parsed_data \in ParsedModels(cfg)
  /\ heap = <<parsed_data, parsed_data, parsed_data>>
  /\ original_data = 1
  /\ current_data = 2
  /\ iterations = <<3>>
  /\ loop_i = 0
  /\ pc = "loop"
  /\ calls = 0
  /\ committed = <<parsed_data>>
  /\ last = NoCall

Init == InitOptimizer /\ probe = NoProbe

\* The models the references of a list point at.
Deref(refs) == [j \in 1..Len(refs) |-> heap[refs[j]]]

\* legalize_placement called on the object `data` of heap h: the heap after
\* the call, how the call ended, and the object returned (`return data`,
\* lines 49 and 68), 0 when it raised.
LegalizeCall(h, data, macro_width, macro_height, macro_halo, iteration) ==
  LET r == LegalizePlacement(h[data], macro_width, macro_height, macro_halo, iteration)
  IN [heap |-> [h EXCEPT ![data] = r.data], outcome |-> r.outcome,
      ret |-> IF r.outcome = "return" THEN data ELSE 0]

\* A faulty variant of ForceCall that writes the new positions into `data`
\* itself and returns it.
ForceInPlace(h, data, original_data_arg, overlap_force, spring_force, halo_size) ==
  LET original == IF original_data_arg = 0 THEN << >> ELSE <<h[original_data_arg]>>
      result == ForceBasedPlacement(h[data], original, overlap_force, spring_force,
                                    halo_size)
  IN [heap |-> [h EXCEPT ![data] = result], outcome |-> "return", ret |-> data]

\* force_based_placement called on the object `data` of heap h, with
\* original_data_arg the object passed as original_data (0 for None): the
\* result is a new object, modified_data of line 19, and `data` is only read.
ForceCall(h, data, original_data_arg, overlap_force, spring_force, halo_size) ==
  LET original == IF original_data_arg = 0 THEN << >> ELSE <<h[original_data_arg]>>
      result == ForceBasedPlacement(h[data], original, overlap_force, spring_force,
                                    halo_size)
  IN [heap |-> Append(h, result), outcome |-> "return", ret |-> Len(h) + 1]

\* A faulty variant of CopyCurrent that hands current_data itself to the
\* modification function.
AliasCurrent(h, ref) == [heap |-> h, ref |-> ref]

\* Line 48: new_data = copy.deepcopy(self.current_data), a new object.
CopyCurrent(h, ref) == [heap |-> Append(h, h[ref]), ref |-> Len(h) + 1]

\* A faulty variant of AppendIteration that overwrites the newest snapshot.
ReplaceLast(iters, ref) == [iters EXCEPT ![Len(iters)] = ref]

\* Line 57: self.iterations.append(...).
AppendIteration(iters, ref) == Append(iters, ref)

\* Lines 54-57, reached when the modification function returned the object
\* modified_data of heap h: it becomes current_data and a deep copy of it is
\* appended to iterations.
Commit(h, modified_data) ==
  /\ heap' = Append(h, h[modified_data])
  /\ current_data' = modified_data
  /\ iterations' = AppendIteration(iterations, Len(h) + 1)
  /\ committed' = Append(committed, h[modified_data])

\* The modification function raised: modify_placement is left at line 51.
Raise(h) ==
  /\ heap' = h
  /\ UNCHANGED <<current_data, iterations, committed>>

\* The call of line 51, modification_func(new_data, **kwargs), for the two
\* functions and the keyword arguments main hands over (lines 487-493 for
\* force_based_placement, in the call main keeps commented out; lines 500-505
\* for legalize_placement).
CallModification(modification_func, h, new_data, iteration) ==
  IF modification_func = "legalize_placement"
  THEN LegalizeCall(h, new_data, cfg.macro_width, cfg.macro_height, cfg.macro_halo,
                    iteration)
  ELSE ForceCall(h, new_data, IF cfg.original THEN original_data ELSE 0,
                 cfg.overlap_force, cfg.spring_force, cfg.halo_size)

\* modify_placement(modification_func, **kwargs), lines 47-62.
\* _visualize_current (line 60) only reads.
ModifyPlacement(modification_func, iteration) ==
  \E new \in {CopyCurrent(heap, current_data)} :
  \E call \in {CallModification(modification_func, new.heap, new.ref, iteration)} :
     /\ IF call.outcome = "return" THEN Commit(call.heap, call.ret) ELSE Raise(call.heap)
     /\ calls' = calls + 1
     /\ last' = [func |-> modification_func, iteration |-> iteration,
                 outcome |-> call.outcome,
                 identity |-> call.ret = new.ref,
                 before |-> new.heap[new.ref], after |-> call.heap[new.ref],
                 result |-> call.heap[IF call.outcome = "return" THEN call.ret ELSE new.ref],
                 iterations_before |-> iterations]

\* modify_placement(legalize_placement, ..., iteration=iteration).
ModifyLegalize(iteration) == ModifyPlacement("legalize_placement", iteration)

\* modify_placement(force_based_placement, ...); it has no iteration argument.
ModifyForce == ModifyPlacement("force_based_placement", 0)

MacroCount == Len(parsed_data.macros)

\* A driver stepping the sequential legalizer with any index, -1 and the
\* macro count included.
StepLegalize ==
  /\ calls < MaxCalls
  /\ \E iteration \in -1..MacroCount : ModifyLegalize(iteration)
  /\ UNCHANGED <<parsed_data, cfg, original_data, loop_i, pc, probe>>

\* A driver stepping the relaxation.
StepForce ==
  /\ calls < MaxCalls
  /\ ModifyForce
  /\ UNCHANGED <<parsed_data, cfg, original_data, loop_i, pc, probe>>

Next == StepLegalize \/ StepForce

Spec == Init /\ [][Next]_vars

\* main, lines 498-505: one turn of `for i in range(len(parsed_data['macros']))`.
LoopStep ==
  /\ pc = "loop"
  /\ loop_i < MacroCount
  /\ ModifyLegalize(loop_i)
  /\ loop_i' = loop_i + 1
  /\ UNCHANGED <<parsed_data, cfg, original_data, pc, probe>>

\* main, lines 506-508: KeyboardInterrupt raised while the modification
\* function runs; modify_placement is left at line 51 and the loop is broken.
LoopInterrupt ==
  /\ pc = "loop"
  /\ loop_i < MacroCount
  /\ pc' = "done"
  /\ calls' = calls + 1
  /\ last' = [NoCall EXCEPT !.func = "legalize_placement", !.iteration = loop_i,
                            !.outcome = "KeyboardInterrupt",
                            !.before = heap[current_data], !.after = heap[current_data],
                            !.result = heap[current_data],
                            !.iterations_before = iterations]
  /\ UNCHANGED <<heap, parsed_data, cfg, original_data, current_data, iterations,
                 loop_i, committed, probe>>

\* main: the loop ran out of indices.
LoopEnd ==
  /\ pc = "loop"
  /\ loop_i >= MacroCount
  /\ pc' = "done"
  /\ UNCHANGED <<heap, parsed_data, cfg, original_data, current_data, iterations,
                 loop_i, calls, committed, last, probe>>

NextMain == LoopStep \/ LoopInterrupt \/ LoopEnd

SpecMain == Init /\ [][NextMain]_vars

\* Lines 33-40 on their own: the pair (x_overlap, y_overlap) for a current
\* macro at probe.a and another macro at probe.b, and for the two exchanged,
\* under the extent and halo of the run.  The positions are any grid points
\* within MaxProbe steps of (0, 0), negative ones included.
ProbePositions ==
  {<<cfg.grid_x * g[1], cfg.grid_y * g[2]>> : g \in (-MaxProbe..MaxProbe) \X (-MaxProbe..MaxProbe)}

InitOverlap ==
  /\ InitOptimizer
  /\ MacroCount = 0
  /\ probe \in {[a |-> a, b |-> b, done |-> FALSE] : a, b \in ProbePositions}

OverlapPair(c1, c2) ==
  <<XOverlap(c1, c2, cfg.macro_width, cfg.macro_halo),
    YOverlap(c1, c2, cfg.macro_height, cfg.macro_halo)>>

ComputeOverlap ==
  /\ ~probe.done
  /\ probe' = [a |-> probe.a, b |-> probe.b, done |-> TRUE,
               ab |-> OverlapPair(probe.a, probe.b),
               ba |-> OverlapPair(probe.b, probe.a)]
  /\ UNCHANGED <<heap, parsed_data, cfg, original_data, current_data, iterations,
                 loop_i, pc, calls, committed, last>>

NextOverlap == ComputeOverlap

SpecOverlap == InitOverlap /\ [][NextOverlap]_vars

(***************************************************************************)
(* The claims.  `last` holds the last call of a modification function:     *)
(* last.before is the model it was given, last.after the same object when *)
(* the call ended, last.result the model it returned.                      *)
(***************************************************************************)

Legalized == last.func = "legalize_placement"

Relaxed == last.func = "force_based_placement"

Returned == last.outcome = "return"

LastCount == Len(last.before.macros)

\* The iteration index of the last call is a rank, 0 <= iteration < macro count.
ValidIndex == 0 <= last.iteration /\ last.iteration < LastCount

CoordsBefore(m) == last.before.macros[m].coordinates

CoordsAfter(m) == last.after.macros[m].coordinates

\* The halo-expanded overlaps of two positions under the run's parameters.
OverlapX(p, q) == XOverlap(p, q, cfg.macro_width, cfg.macro_halo)

OverlapY(p, q) == YOverlap(p, q, cfg.macro_height, cfg.macro_halo)

\* The configuration of the last call is invalid: no macro, a non-positive
\* extent (the sequential step takes the extent as arguments), or a die area
\* whose upper right corner is not strictly beyond the lower left one.
WellFormedDie(die) ==
  die.upper_right[1] > die.lower_left[1] /\ die.upper_right[2] > die.lower_left[2]

InvalidConfiguration ==
  \/ LastCount = 0
  \/ Legalized /\ (cfg.macro_width <= 0 \/ cfg.macro_height <= 0)
  \/ ~WellFormedDie(last.before.die_area)

\* C1: after a sequential step with a valid index, every macro ranked after
\* the current one that overlapped it before the step has overlap exactly 0
\* with it along the axis on which it was displaced, wherever it lay.
C1_PairwiseMinimalCorrection ==
  (Legalized /\ Returned /\ ValidIndex) =>
    LET order == SortedMacros(last.before)
        c == order[last.iteration + 1]
    IN \A r \in (last.iteration + 2)..LastCount :
         LET m == order[r]
         IN (OverlapX(CoordsBefore(c), CoordsBefore(m)) > 0
             /\ OverlapY(CoordsBefore(c), CoordsBefore(m)) > 0) =>
              \/ /\ CoordsAfter(m)[1] # CoordsBefore(m)[1]
                 /\ OverlapX(CoordsAfter(c), CoordsAfter(m)) = 0
              \/ /\ CoordsAfter(m)[2] # CoordsBefore(m)[2]
                 /\ OverlapY(CoordsAfter(c), CoordsAfter(m)) = 0

\* C2: a sequential step with a valid index k leaves the coordinates of the
\* current macro (rank k) and of every macro of rank below k as they were.
C2_EarlierRanksUnmoved ==
  (Legalized /\ ValidIndex) =>
    LET order == SortedMacros(last.before)
    IN \A r \in 1..(last.iteration + 1) :
         CoordsAfter(order[r]) = CoordsBefore(order[r])

\* A step with index 1 returned although the macro of rank 0 overlaps the
\* current one: it is a macro the step could have moved, and did not.
C2_Witness ==
  /\ Legalized /\ Returned /\ ValidIndex /\ last.iteration = 1
  /\ LET order == SortedMacros(last.before)
     IN /\ OverlapX(CoordsBefore(order[2]), CoordsBefore(order[1])) > 0
        /\ OverlapY(CoordsBefore(order[2]), CoordsBefore(order[1])) > 0
        /\ last.after.macros[order[2]].highlighted

\* C3: a sequential step called with an index outside 0 <= iteration < macro
\* count ends in an error and leaves the model it was given unmodified (no
\* coordinate changed, no macro highlighted).  Stated for the calls whose
\* configuration is valid otherwise.
C3_IndexValidation ==
  (Legalized /\ ~ValidIndex /\ ~InvalidConfiguration) =>
    (~Returned /\ last.after = last.before)

\* Containment of one position in the die area for the extent of the
\* relaxation.
AboveLowerLeft(die, c) == die.lower_left[1] <= c[1] /\ die.lower_left[2] <= c[2]

BelowUpperRightX(die, c) == c[1] + force_macro_width <= die.upper_right[1]

BelowUpperRightY(die, c) == c[2] + force_macro_height <= die.upper_right[2]

\* C4: after any relaxation iteration every returned position p satisfies
\* lower_left <= p and p + extent <= upper_right, whatever the die area
\* (any rectangle with upper_right strictly beyond lower_left).
C4_Containment ==
  (Relaxed /\ WellFormedDie(last.result.die_area)) =>
    \A a \in 1..Len(last.result.macros) :
      LET c == last.result.macros[a].coordinates
          die == last.result.die_area
      IN AboveLowerLeft(die, c) /\ BelowUpperRightX(die, c) /\ BelowUpperRightY(die, c)

\* C4 as amended: every returned position is at or above lower_left on both
\* axes, and p + extent <= upper_right holds on each axis on which the die
\* area is at least as long as the extent the relaxation uses (155420 by
\* 81200).
C4_ContainmentWhenDieFits ==
  Relaxed =>
    \A a \in 1..Len(last.result.macros) :
      LET c == last.result.macros[a].coordinates
          die == last.result.die_area
      IN /\ AboveLowerLeft(die, c)
         /\ (die.upper_right[1] - die.lower_left[1] >= force_macro_width
               => BelowUpperRightX(die, c))
         /\ (die.upper_right[2] - die.lower_left[2] >= force_macro_height
               => BelowUpperRightY(die, c))

\* A relaxation iteration in a die area that can hold a macro pushed one
\* macro against the upper bound and left another at the lower bound.
C4_Witness ==
  /\ Relaxed
  /\ LET die == last.result.die_area
     IN /\ die.upper_right[1] - die.lower_left[1] >= force_macro_width
        /\ die.upper_right[2] - die.lower_left[2] >= force_macro_height
        /\ \E a, b \in 1..Len(last.result.macros) :
             /\ last.result.macros[a].coordinates # last.before.macros[a].coordinates
             /\ last.result.macros[a].coordinates[1] = die.upper_right[1] - force_macro_width
             /\ last.result.macros[b].coordinates[1] = die.lower_left[1]

\* C5: when the modification function raises, current_data holds the model
\* it held before the call and iterations has the entries it had, unchanged.
C5_FailedStepAtomic ==
  (last.func # "none" /\ ~Returned) =>
    /\ heap[current_data] = last.before
    /\ iterations = last.iterations_before
    /\ Deref(iterations) = committed

\* The sequential step raised TypeError on the tuples a committed relaxation
\* step left, after it had highlighted the current macro in new_data.
C5_Witness ==
  /\ Legalized /\ last.outcome = "TypeError"
  /\ Len(iterations) = 2
  /\ last.after # last.before

\* C6: in a sequential step that returns, each macro ranked after the current
\* one that overlaps it (both overlaps positive) moves right by the x overlap
\* when that is the smaller one and otherwise, ties included, down by the y
\* overlap, the other coordinate unchanged; a macro ranked after the current
\* one that does not overlap it keeps its position.  With extent 100 x 100,
\* halo 0, A = (0, 0), B = (50, 0), iteration 0 gives B = (100, 0) and then
\* overlap(A, B) = 0.
C6_DisplacementRule ==
  /\ (Legalized /\ Returned /\ ValidIndex) =>
       LET order == SortedMacros(last.before)
           c == order[last.iteration + 1]
       IN \A r \in (last.iteration + 2)..LastCount :
            LET m == order[r]
                x_overlap == OverlapX(CoordsBefore(c), CoordsBefore(m))
                y_overlap == OverlapY(CoordsBefore(c), CoordsBefore(m))
            IN CoordsAfter(m) =
                 IF x_overlap > 0 /\ y_overlap > 0
                 THEN IF x_overlap < y_overlap
                      THEN <<CoordsBefore(m)[1] + x_overlap, CoordsBefore(m)[2]>>
                      ELSE <<CoordsBefore(m)[1], CoordsBefore(m)[2] + y_overlap>>
                 ELSE CoordsBefore(m)
  /\ LET step == LegalizePlacement([die_area |-> DieArea(0, 0, 1000, 1000),
                                    macros |-> <<Macro(0, 0), Macro(50, 0)>>],
                                   100, 100, 0, 0)
     IN /\ step.outcome = "return"
        /\ step.data.macros[1].coordinates = <<0, 0>>
        /\ step.data.macros[2].coordinates = <<100, 0>>
        /\ XOverlap(<<0, 0>>, step.data.macros[2].coordinates, 100, 0) = 0

\* A step that returned after moving a macro down on a tie of the overlaps.
C6_Witness ==
  /\ Legalized /\ Returned /\ ValidIndex
  /\ LET order == SortedMacros(last.before)
         c == order[last.iteration + 1]
     IN \E r \in (last.iteration + 2)..LastCount :
          LET m == order[r]
              x_overlap == OverlapX(CoordsBefore(c), CoordsBefore(m))
              y_overlap == OverlapY(CoordsBefore(c), CoordsBefore(m))
          IN /\ x_overlap > 0
             /\ x_overlap = y_overlap
             /\ CoordsAfter(m) = <<CoordsBefore(m)[1], CoordsBefore(m)[2] + y_overlap>>

\* C7: a step of either strategy on an invalid configuration ends in an
\* error, with the model it was given unmodified.  Stated for the calls whose
\* iteration index is a rank, or whose model has no macro to rank.
C7_ConfigurationValidation ==
  (last.func # "none" /\ InvalidConfiguration /\ (ValidIndex \/ LastCount = 0)) =>
    (~Returned /\ last.after = last.before)

\* C8: a successful step of either strategy updates the model it was given
\* and returns that same model.
C8_InPlaceCommit ==
  (last.func # "none" /\ Returned) => (last.identity /\ last.after = last.result)

\* C8 as amended: a successful sequential step updates the model it was
\* given and returns that same model; a relaxation step returns a new model
\* and leaves the model it was given as it was.
C8_InPlaceSequentialOnly ==
  /\ (Legalized /\ Returned) => (last.identity /\ last.after = last.result)
  /\ Relaxed => (~last.identity /\ last.after = last.before)

\* A relaxation step whose result differs from the model it was given.
C8_Witness ==
  /\ Relaxed
  /\ \E a \in 1..LastCount :
       last.result.macros[a].coordinates # last.before.macros[a].coordinates

\* C9: the snapshots in iterations are the models committed, in commit order
\* and as they were when committed; original_data is the parsed placement;
\* iterations has one entry for the initial state and one per committed step;
\* its last entry equals current_data.
C9_SnapshotHistory ==
  /\ Deref(iterations) = committed
  /\ heap[original_data] = parsed_data
  /\ committed[1] = parsed_data
  /\ Len(iterations) = Len(committed)
  /\ heap[iterations[Len(iterations)]] = heap[current_data]

\* Two steps were committed and each changed the model.
C9_Witness ==
  /\ Len(iterations) = 3
  /\ committed[1] # committed[2]
  /\ committed[2] # committed[3]
  /\ \E a \in 1..Len(committed[3].macros) :
       committed[2].macros[a].coordinates # committed[3].macros[a].coordinates

\* No two macros of the model have halo-expanded boxes that overlap on both
\* axes, under the run's extent and halo.
PairwiseResolved(data) ==
  \A a, b \in 1..Len(data.macros) :
    a # b =>
      LET p == data.macros[a].coordinates
          q == data.macros[b].coordinates
      IN ~(/\ cfg.macro_width + 2 * cfg.macro_halo - Abs(p[1] - q[1]) > 0
           /\ cfg.macro_height + 2 * cfg.macro_halo - Abs(p[2] - q[2]) > 0)

\* C10: on a pairwise resolved placement the pass iteration = 0..N-1 changes
\* no macro's position, at any point of the pass.
C10_ResolvedPassIdempotent ==
  PairwiseResolved(parsed_data) =>
    \A a \in 1..MacroCount :
      heap[current_data].macros[a].coordinates = parsed_data.macros[a].coordinates

\* The pass ran to its end over two macros of positive extent that were
\* pairwise resolved.
C10_Witness ==
  /\ pc = "done"
  /\ loop_i = MacroCount
  /\ MacroCount >= 2
  /\ Len(iterations) = MacroCount + 1
  /\ cfg.macro_width > 0
  /\ PairwiseResolved(parsed_data)

\* C11: the overlap pair computed with a as current and b as other equals
\* the pair computed with b as current and a as other, and each component is
\* extent + 2 * halo - |delta| on its axis.
C11_OverlapSymmetry ==
  probe.done =>
    /\ probe.ab = probe.ba
    /\ probe.ab[1] = cfg.macro_width + 2 * cfg.macro_halo - Abs(probe.a[1] - probe.b[1])
    /\ probe.ab[2] = cfg.macro_height + 2 * cfg.macro_halo - Abs(probe.a[2] - probe.b[2])

\* Overlaps computed for a halo-expanded pair at different positions, the
\* current macro to the right of and above the other one, at a negative x.
C11_Witness ==
  /\ probe.done
  /\ cfg.macro_halo > 0
  /\ probe.a[1] > probe.b[1]
  /\ probe.a[2] > probe.b[2]
  /\ probe.b[1] < 0
  /\ probe.ab[1] > 0

\* The last call was a relaxation of two macros at one position, with no
\* halo and no spring.
CoincidentPair ==
  /\ Relaxed
  /\ LastCount = 2
  /\ cfg.halo_size = 0
  /\ cfg.spring_force = 0
  /\ CoordsBefore(1) = CoordsBefore(2)

\* The positions returned for a coincident pair when the first macro is
\* pushed by -magnitude and the second by +magnitude along x (magnitude in
\* hundredths), each then clamped into the die area and truncated.
PushedApart(magnitude) ==
  /\ last.result.macros[1].coordinates =
       IntCoordinates(NewPos(last.before.die_area, CoordsBefore(1), <<-magnitude, 0>>))
  /\ last.result.macros[2].coordinates =
       IntCoordinates(NewPos(last.before.die_area, CoordsBefore(2), <<magnitude, 0>>))

\* C12: two coincident macros, halo 0, spring_force 0: one relaxation
\* iteration pushes them apart along x only, in opposite directions, by
\* overlap_force x width each, before each is clamped into the die area.
C12_CoincidentPushByWidth ==
  CoincidentPair => PushedApart(cfg.overlap_force * force_macro_width)

\* C12, amended: the push is overlap_force x min(width, height), the smaller
\* of the two overlap distances of a coincident pair.
C12_CoincidentPushByMin ==
  CoincidentPair =>
    PushedApart(cfg.overlap_force * Min2(force_macro_width, force_macro_height))

\* A coincident pair that the die area leaves room to separate: the two end
\* the iteration at the same y, on either side of where they were, equally far
\* from it.
C12_Witness ==
  /\ CoincidentPair
  /\ last.result.macros[1].coordinates[2] = CoordsBefore(1)[2]
  /\ last.result.macros[2].coordinates[2] = CoordsBefore(2)[2]
  /\ last.result.macros[1].coordinates[1] < CoordsBefore(1)[1]
  /\ CoordsBefore(1)[1] - last.result.macros[1].coordinates[1]
       = last.result.macros[2].coordinates[1] - CoordsBefore(2)[1]

\* Every macro of the model lies with its full extent (the run's
\* macro_width x macro_height) inside the die area.
InsideDie(data) ==
  \A a \in 1..Len(data.macros) :
    /\ data.die_area.lower_left[1] <= data.macros[a].coordinates[1]
    /\ data.die_area.lower_left[2] <= data.macros[a].coordinates[2]
    /\ data.macros[a].coordinates[1] + cfg.macro_width <= data.die_area.upper_right[1]
    /\ data.macros[a].coordinates[2] + cfg.macro_height <= data.die_area.upper_right[2]

\* C13: when every macro of the parsed placement lies inside the die area
\* (a well-formed one, the extent positive), every macro still lies inside it
\* after each step of the sequential pass iteration = 0..N-1.
C13_SequentialContainment ==
  (/\ WellFormedDie(parsed_data.die_area)
   /\ cfg.macro_width > 0 /\ cfg.macro_height > 0
   /\ InsideDie(parsed_data)) =>
    InsideDie(heap[current_data])

\* The number of macros of the model that come before macro m when the
\* macros are ordered by ascending distance from (0, 0), macros at equal
\* distance in insertion order: the 0-based rank of m.
FreshRank(data, m) ==
  Cardinality({j \in 1..Len(data.macros) :
     \/ KeyLess(DistKey(data.macros[j].coordinates), DistKey(data.macros[m].coordinates))
     \/ /\ DistKey(data.macros[j].coordinates) = DistKey(data.macros[m].coordinates)
        /\ j < m})

\* C14: the current macro of a sequential step, the one the step highlights,
\* is the macro at rank `iteration` of the order taken from the positions the
\* model has when the step starts: ascending distance from (0, 0), equal
\* distances in insertion order.
C14_OrderingRule ==
  (Legalized /\ ValidIndex /\ last.outcome \in {"return", "TypeError"}) =>
    \A m \in 1..LastCount :
      last.after.macros[m].highlighted =
        (last.before.macros[m].highlighted \/ FreshRank(last.before, m) = last.iteration)

\* A step that selected a macro tied in distance with another one, at a rank
\* the macro did not have in the placement as parsed.
C14_Witness ==
  /\ Legalized /\ ValidIndex
  /\ \E m, j \in 1..LastCount :
       /\ j # m
       /\ last.after.macros[m].highlighted
       /\ ~last.before.macros[m].highlighted
       /\ CoordsBefore(j) = CoordsBefore(m)
       /\ FreshRank(last.before, m) = last.iteration
       /\ FreshRank(parsed_data, m) # last.iteration

\* The macros of the model that are highlighted: those that have been the
\* current macro of a step.
Highlighted(data) == {m \in 1..Len(data.macros) : data.macros[m].highlighted}

NonNegative(data) ==
  \A m \in 1..Len(data.macros) :
    data.macros[m].coordinates[1] >= 0 /\ data.macros[m].coordinates[2] >= 0

\* C15: in the pass iteration = 0..N-1 over a placement with non-negative
\* coordinates, step k leaves the macros of ranks 0..k at their ranks; the
\* macro it selects has not been current before, and the k macros selected
\* before it are the others of ranks below k; when the pass has run to its
\* end every macro has been current, each in one of the N steps.
C15_PassCoverage ==
  NonNegative(parsed_data) =>
    /\ (Legalized /\ Returned) =>
         /\ \A m \in 1..LastCount :
              FreshRank(last.before, m) <= last.iteration =>
                FreshRank(last.after, m) = FreshRank(last.before, m)
         /\ Highlighted(last.before) =
              {m \in 1..LastCount : FreshRank(last.before, m) < last.iteration}
         /\ Highlighted(last.after) =
              {m \in 1..LastCount : FreshRank(last.before, m) <= last.iteration}
    /\ (pc = "done" /\ loop_i = MacroCount) =>
         /\ Highlighted(heap[current_data]) = 1..MacroCount
         /\ calls = MacroCount

\* The pass ran to its end over two macros and moved one of them on the way.
C15_Witness ==
  /\ pc = "done"
  /\ loop_i = MacroCount
  /\ MacroCount >= 2
  /\ Highlighted(heap[current_data]) = 1..MacroCount
  /\ \E m \in 1..MacroCount :
       heap[current_data].macros[m].coordinates # parsed_data.macros[m].coordinates

\* Position q is position p moved by nothing, or to the right by at most dx,
\* or to larger y by at most dy, but not both.
MovedRightOrDown(p, q, dx, dy) ==
  \/ q = p
  \/ q[2] = p[2] /\ q[1] > p[1] /\ q[1] - p[1] <= dx
  \/ q[1] = p[1] /\ q[2] > p[2] /\ q[2] - p[2] <= dy

\* No relaxation step has produced the model: its coordinates are lists.
OnlySequentialSteps(data) == \A m \in 1..Len(data.macros) : ~data.macros[m].is_tuple

\* C16: a sequential step with a valid index changes at most one coordinate
\* of any macro, by a positive amount of at most extent + 2 * halo on that
\* axis; and over a sequence of committed sequential steps no coordinate of
\* any macro ever decreases.
C16_MonotoneDisplacement ==
  /\ (Legalized /\ ValidIndex) =>
       \A m \in 1..LastCount :
         MovedRightOrDown(CoordsBefore(m), CoordsAfter(m),
                          cfg.macro_width + 2 * cfg.macro_halo,
                          cfg.macro_height + 2 * cfg.macro_halo)
  /\ \A n \in 2..Len(committed) :
       OnlySequentialSteps(committed[n]) =>
         \A m \in 1..Len(committed[n].macros) :
           /\ committed[n].macros[m].coordinates[1] >= committed[n - 1].macros[m].coordinates[1]
           /\ committed[n].macros[m].coordinates[2] >= committed[n - 1].macros[m].coordinates[2]

\* Two committed sequential steps with valid indices moved one macro twice:
\* first to the right, then to larger y.
C16_Witness ==
  /\ Legalized /\ ValidIndex /\ Returned
  /\ Len(committed) = 3
  /\ OnlySequentialSteps(committed[3])
  /\ \E m \in 1..LastCount :
       /\ committed[2].macros[m].coordinates[1] > committed[1].macros[m].coordinates[1]
       /\ committed[3].macros[m].coordinates[2] > committed[2].macros[m].coordinates[2]

====
